---------------------------- MODULE Spec2Model ----------------------------
(***************************************************************************)
(* Byte-oriented Huffman compression (src/Huffman.py, class HuffmanCode).  *)
(*                                                                         *)
(* Representation.                                                         *)
(*   - A bit string (a Python str of '0'/'1') is a sequence over {0, 1}.   *)
(*   - A symbol is a byte value 0..255; the 8-character string that        *)
(*     read_bytes makes of it (BitArray(byte).bin) is Bin8(b), and that is *)
(*     what is written to and read back from the header.                   *)
(*   - The special code name f'alpha{k}__' is the number AlphaBase + k, so *)
(*     it is distinct from every symbol and from both bits.  A codeword    *)
(*     under construction ('alpha3__01') is a sequence of tokens: code     *)
(*     names and bits.                                                     *)
(*   - A dict is the sequence of its <<key, value>> items in insertion     *)
(*     order, which is the order Python iterates it in.                    *)
(*   - make_frequency_tuples divides every count by the same total and the *)
(*     merge loop adds the quotients as floats; the model keeps and adds   *)
(*     the counts.  The two orders agree wherever the float sums are       *)
(*     exact, which they are for every input within MaxLen (the tables of  *)
(*     the code and of the model were compared on those inputs); a rounded *)
(*     sum can only change the order among entries of equal count.         *)
(***************************************************************************)
EXTENDS Integers, Sequences, FiniteSets

VARIABLES
    pc,                  \* position in Encode / Decode
    bitlist,             \* Encode: the symbols read from the file
    freqs,               \* Encode: the frequency list (self.freqs)
    wfreqs,              \* create_encoder_dictionary: its local list freqs
    codes,               \* create_encoder_dictionary: codes
    ptr,                 \* create_encoder_dictionary: ptr
    encoder_dict,        \* the encoder dictionary (final_codes)
    orig_encoded_string, \* Encode: the payload
    header,              \* Encode: make_header's result
    encoded_string,      \* Encode: the result
    decode_input,        \* Decode: its argument encoded_bin_string
    head,                \* Decode: head
    code2symb,           \* Decode: code2symb
    bin_to_decompress,   \* Decode: bin_to_decompress
    n_pad,               \* Decode: n_pad
    decoded_string,      \* Decode: the result
    err                  \* the exception that ended the call, or "none"

vars == <<pc, bitlist, freqs, wfreqs, codes, ptr, encoder_dict,
          orig_encoded_string, header, encoded_string, decode_input, head,
          code2symb, bin_to_decompress, n_pad, decoded_string, err>>

---------------------------------------------------------------------------
(* Bounds of the model.                                                    *)

\* longest input of Encode, in bytes
MaxLen == 6
\* the byte values the inputs of Encode are made of
Bytes == {0, 65, 200, 255}
\* longest frequency list handed directly to create_encoder_dictionary
MaxSyms == 5
\* largest count in such a list
MaxCount == 6
\* most entries of a code table handed directly to make_header
MaxTable == 2
\* longest codeword of such a table (besides LongCodes)
MaxCodeLen == 2

---------------------------------------------------------------------------
(* Program constants.                                                      *)

\* the symbols are the byte values 0 .. NumSymbols-1
NumSymbols == 256
\* self.codesnames holds alpha0__ .. alpha255__
NumCodesNames == 256
\* first number standing for a code name, past every symbol
AlphaBase == NumSymbols

Bit == {0, 1}

---------------------------------------------------------------------------
(* Python and bitstring primitives.                                        *)

\* s[a:b] for 0 <= a, b: the items at 0-based positions a .. b-1, clamped
Slice(s, a, b) ==
    LET hi == IF b < Len(s) THEN b ELSE Len(s)
    IN  IF a >= hi THEN <<>> ELSE SubSeq(s, a + 1, hi)

\* s[a:]
SliceFrom(s, a) == Slice(s, a, Len(s))

\* s[:-n] for n > 0
DropLast(s, n) == IF n >= Len(s) THEN <<>> ELSE SubSeq(s, 1, Len(s) - n)

\* BitArray(uint = n, length = 8).bin, for 0 <= n <= 255 (CreationError else)
Bin8(n) == [i \in 1..8 |-> (n \div (2 ^ (8 - i))) % 2]

\* BitArray(bin = s).uint, for a nonempty s (InterpretError on the empty one)
RECURSIVE Uint(_)
Uint(s) == IF s = <<>> THEN 0
           ELSE 2 * Uint(SubSeq(s, 1, Len(s) - 1)) + s[Len(s)]

\* '0' * n
Zeros(n) == [i \in 1..n |-> 0]

\* dict: k in d.keys()
HasKey(d, k) == \E i \in 1..Len(d) : d[i][1] = k

\* dict: d[k]
Get(d, k) == d[CHOOSE i \in 1..Len(d) : d[i][1] = k][2]

\* dict: d[k] = v (an existing key keeps its place, a new one goes last)
Put(d, k, v) ==
    IF HasKey(d, k)
    THEN [i \in 1..Len(d) |-> IF d[i][1] = k THEN <<k, v>> ELSE d[i]]
    ELSE Append(d, <<k, v>>)

\* list.sort(key = itemgetter(0), reverse = True): stable, descending
RECURSIVE SortDescFrom(_, _, _)
SortDescFrom(s, i, acc) ==
    IF i > Len(s) THEN acc
    ELSE LET e == s[i]
             n == Cardinality({j \in 1..Len(acc) : acc[j][1] >= e[1]})
         IN  SortDescFrom(s, i + 1,
                 SubSeq(acc, 1, n) \o <<e>> \o SubSeq(acc, n + 1, Len(acc)))

SortDesc(s) == SortDescFrom(s, 1, <<>>)

---------------------------------------------------------------------------
(* Frequency analysis: make_frequency_tuples.                              *)

\* the counting loop: counts[x] = counts.get(x, 0) + 1
RECURSIVE CountFrom(_, _, _)
CountFrom(bl, i, counts) ==
    IF i > Len(bl) THEN counts
    ELSE LET x == bl[i]
             c == IF HasKey(counts, x) THEN Get(counts, x) ELSE 0
         IN  CountFrom(bl, i + 1, Put(counts, x, c + 1))

\* (count, symbol) for every item of counts, in its order, then sorted from
\* the most common to the least common symbol
make_frequency_tuples(binary_list) ==
    LET counts == CountFrom(binary_list, 1, <<>>)
    IN  SortDesc([i \in 1..Len(counts) |-> <<counts[i][2], counts[i][1]>>])

---------------------------------------------------------------------------
(* Code table construction: update_dictionary, create_encoder_dictionary.  *)

\* self.codesnames[i]
codesnames(i) == AlphaBase + i

\* a token that is a code name: what self.pat matches
IsName(t) == t >= AlphaBase

\* re.match(self.pat, s): s begins with a code name
Matches(s) == Len(s) > 0 /\ IsName(s[1])

\* as Sub, with the found codeword put in front of s and the name left in
Sub_Prepend(s, repl) == repl \o s

\* re.sub(self.pat, repl, s): every code name in s replaced by repl
RECURSIVE Sub(_, _)
Sub(s, repl) ==
    IF s = <<>> THEN <<>>
    ELSE (IF IsName(Head(s)) THEN repl ELSE <<Head(s)>>) \o Sub(Tail(s), repl)

\* as UpdatedValue, without the substitution
UpdatedValue_NoSub(cd, i) == cd[i][2]

\* the body of update_dictionary's loop for the item at position i: the
\* value it leaves in cd[i]
UpdatedValue(cd, i) ==
    LET v == cd[i][2]
    IN  IF Matches(v) /\ HasKey(cd, v[1]) THEN Sub(v, Get(cd, v[1])) ELSE v

\* update_dictionary's loop from position i on, updating cd in place
RECURSIVE UpdateFrom(_, _)
UpdateFrom(cd, i) ==
    IF i > Len(cd) THEN cd
    ELSE UpdateFrom([cd EXCEPT ![i] = <<cd[i][1], UpdatedValue(cd, i)>>], i + 1)

update_dictionary(cd) == UpdateFrom(cd, 1)

\* as MergedFreqs, without sorting the new list
MergedFreqs_NoSort(fs, p) ==
    LET n == Len(fs)
    IN  SubSeq(fs, 1, n - 2) \o << <<fs[n - 1][1] + fs[n][1], codesnames(p)>> >>

\* as MergedCodes, with the bit 0 given to both symbols
MergedCodes_SameBit(fs, cd, p) ==
    LET n  == Len(fs)
        c1 == Put(cd, fs[n - 1][2], <<codesnames(p), 0>>)
        c2 == Put(c1, fs[n][2], <<codesnames(p), 0>>)
    IN  UpdateFrom(c2, 1)

\* the list freqs after one pass of the merge loop with code name number p
MergedFreqs(fs, p) ==
    LET n    == Len(fs)
        last == SubSeq(fs, n - 1, n)
        top  == SubSeq(fs, 1, n - 2)
        new_freq == last[1][1] + last[2][1]
    IN  SortDesc(top \o << <<new_freq, codesnames(p)>> >>)

\* the codes after one pass of the merge loop
MergedCodes(fs, cd, p) ==
    LET n    == Len(fs)
        last == SubSeq(fs, n - 1, n)
        c1   == Put(cd, last[1][2], <<codesnames(p), 0>>)
        c2   == Put(c1, last[2][2], <<codesnames(p), 1>>)
    IN  update_dictionary(c2)

\* the codes after the loop, for the two entries left
LastCodes(fs, cd) ==
    update_dictionary(Put(Put(cd, fs[1][2], <<0>>), fs[2][2], <<1>>))

\* final_codes: the items of codes whose key is no code name
RECURSIVE FinalCodes(_)
FinalCodes(cd) ==
    IF cd = <<>> THEN <<>>
    ELSE (IF IsName(Head(cd)[1]) THEN <<>> ELSE <<Head(cd)>>)
         \o FinalCodes(Tail(cd))

---------------------------------------------------------------------------
(* Header and bit stream: make_header, Encode.                             *)

\* the header's items, from position i on
RECURSIVE HeaderItems(_, _)
HeaderItems(ed, i) ==
    IF i > Len(ed) THEN <<>>
    ELSE Bin8(ed[i][1]) \o Bin8(Len(ed[i][2])) \o ed[i][2]
         \o HeaderItems(ed, i + 1)

make_header(bin_string, ed) == Bin8(Len(ed) - 1) \o HeaderItems(ed, 1)

\* whether make_header's 8-bit fields hold their values
HeaderFits(ed) ==
    /\ Len(ed) - 1 \in 0..255
    /\ \A i \in 1..Len(ed) : Len(ed[i][2]) \in 0..255

\* the payload: every symbol's codeword, in the order of the list
RECURSIVE EncodeSymbols(_, _, _)
EncodeSymbols(bl, ed, i) ==
    IF i > Len(bl) THEN <<>>
    ELSE Get(ed, bl[i]) \o EncodeSymbols(bl, ed, i + 1)

\* as PadCount, with no padding for a string that is byte-aligned
PadCount_Mod8(s) == (8 - (Len(s) % 8)) % 8

\* n_pad, for header + payload s
PadCount(s) == 8 - (Len(s) % 8)

\* the padding count, the header and payload s, then the padding
Padded(s) == Bin8(PadCount(s)) \o s \o Zeros(PadCount(s))

---------------------------------------------------------------------------
(* Decode: the header loop, then the bit scan.                             *)

\* Decode's locals before the header loop, for the argument s
ParseStart(s) ==
    IF Slice(s, 0, 8) = <<>> \/ Slice(s, 8, 16) = <<>>
    THEN [err |-> "InterpretError", n_pad |-> 0, n_symb |-> 0,
          head |-> <<>>, code2symb |-> <<>>, rest |-> <<>>]
    ELSE [err |-> "none",
          n_pad |-> Uint(Slice(s, 0, 8)),
          n_symb |-> Uint(Slice(s, 8, 16)) + 1,
          head |-> Slice(s, 0, 16),
          code2symb |-> <<>>,
          rest |-> SliceFrom(s, 16)]

\* as ParseEntry, leaving the codeword on the string to decompress
ParseEntry_KeepCode(st) ==
    LET b == st.rest
    IN  IF Slice(b, 8, 16) = <<>>
        THEN [st EXCEPT !.err = "InterpretError"]
        ELSE LET n_bits == Uint(Slice(b, 8, 16))
             IN  [st EXCEPT !.code2symb = Put(st.code2symb,
                                               Slice(b, 16, 16 + n_bits),
                                               Slice(b, 0, 8)),
                            !.head = st.head \o Slice(b, 0, 16 + n_bits),
                            !.rest = SliceFrom(b, 16)]

\* one pass of the header loop over the locals st
ParseEntry(st) ==
    LET b == st.rest
    IN  IF Slice(b, 8, 16) = <<>>
        THEN [st EXCEPT !.err = "InterpretError"]
        ELSE LET symb   == Slice(b, 0, 8)
                 n_bits == Uint(Slice(b, 8, 16))
                 code   == Slice(b, 16, 16 + n_bits)
             IN  [st EXCEPT !.code2symb = Put(st.code2symb, code, symb),
                            !.head = st.head \o Slice(b, 0, 16 + n_bits),
                            !.rest = SliceFrom(b, 16 + n_bits)]

\* k passes of the header loop, or as many as end without an exception
RECURSIVE ParseEntries(_, _)
ParseEntries(k, st) ==
    IF k = 0 \/ st.err # "none" THEN st
    ELSE ParseEntries(k - 1, ParseEntry(st))

\* Decode up to the end of the header loop
ParseHeader(s) ==
    LET st == ParseStart(s) IN ParseEntries(st.n_symb, st)

\* as Unpadded, leaving the padding on
Unpadded_Keep(b, np) == b

\* the padding taken off the string to decompress
Unpadded(b, np) == IF np > 0 THEN DropLast(b, np) ELSE b

\* the bit scan from 1-based position i on, with the code being decoded buf
\* and the string decoded so far out
RECURSIVE ScanFrom(_, _, _, _, _)
ScanFrom(b, i, buf, out, c2s) ==
    IF i > Len(b) THEN out
    ELSE LET cur == Append(buf, b[i])
         IN  IF HasKey(c2s, cur)
             THEN ScanFrom(b, i + 1, <<>>, out \o Get(c2s, cur), c2s)
             ELSE ScanFrom(b, i + 1, cur, out, c2s)

Scan(b, c2s) == ScanFrom(b, 1, <<>>, <<>>, c2s)

---------------------------------------------------------------------------
(* The operations.                                                         *)

\* every sequence over S of length 0 .. n
SeqUpTo(S, n) == UNION {[1..k -> S] : k \in 0..n}

InitRest ==
    /\ freqs = <<>> /\ wfreqs = <<>> /\ codes = <<>> /\ ptr = 0
    /\ header = <<>> /\ encoded_string = <<>>
    /\ decode_input = <<>> /\ head = <<>> /\ code2symb = <<>>
    /\ bin_to_decompress = <<>> /\ n_pad = 0 /\ decoded_string = <<>>
    /\ err = "none"

\* Encode is called on a file of at most MaxLen bytes
Init ==
    /\ pc = "Encode"
    /\ bitlist \in SeqUpTo(Bytes, MaxLen)
    /\ encoder_dict = <<>> /\ orig_encoded_string = <<>>
    /\ InitRest

\* Encode: the list of symbols and the frequency table
EncodeStart ==
    /\ pc = "Encode"
    /\ freqs' = make_frequency_tuples(bitlist)
    /\ pc' = "create_encoder_dictionary"
    /\ UNCHANGED <<bitlist, wfreqs, codes, ptr, encoder_dict,
                   orig_encoded_string, header, encoded_string, decode_input,
                   head, code2symb, bin_to_decompress, n_pad, decoded_string,
                   err>>

\* create_encoder_dictionary(freqs): its locals before the loop
BuildStart ==
    /\ pc = "create_encoder_dictionary"
    /\ wfreqs' = freqs
    /\ ptr' = 0
    /\ codes' = <<>>
    /\ pc' = "build"
    /\ UNCHANGED <<bitlist, freqs, encoder_dict, orig_encoded_string, header,
                   encoded_string, decode_input, head, code2symb,
                   bin_to_decompress, n_pad, decoded_string, err>>

\* create_encoder_dictionary: one pass of the merge loop
MergeStep ==
    /\ pc = "build"
    /\ Len(wfreqs) > 2
    /\ IF ptr < NumCodesNames
       THEN /\ wfreqs' = MergedFreqs(wfreqs, ptr)
            /\ codes' = MergedCodes(wfreqs, codes, ptr)
            /\ ptr' = ptr + 1
            /\ UNCHANGED <<pc, err>>
       ELSE /\ pc' = "failed"
            /\ err' = "IndexError"
            /\ UNCHANGED <<wfreqs, codes, ptr>>
    /\ UNCHANGED <<bitlist, freqs, encoder_dict, orig_encoded_string, header,
                   encoded_string, decode_input, head, code2symb,
                   bin_to_decompress, n_pad, decoded_string>>

\* create_encoder_dictionary: after the loop.  freqs[0] or freqs[1] raises
\* IndexError when the list is that short.
FinishBuild ==
    /\ pc = "build"
    /\ Len(wfreqs) <= 2
    /\ IF Len(wfreqs) = 2
       THEN /\ codes' = LastCodes(wfreqs, codes)
            /\ encoder_dict' = FinalCodes(codes')
            /\ pc' = "built"
            /\ UNCHANGED err
       ELSE /\ codes' = IF Len(wfreqs) = 1
                        THEN Put(codes, wfreqs[1][2], <<0>>) ELSE codes
            /\ pc' = "failed"
            /\ err' = "IndexError"
            /\ UNCHANGED encoder_dict
    /\ UNCHANGED <<bitlist, freqs, wfreqs, ptr, orig_encoded_string, header,
                   encoded_string, decode_input, head, code2symb,
                   bin_to_decompress, n_pad, decoded_string>>

\* Encode: the payload, the header, the padding
EncodeFinish ==
    /\ pc = "built"
    /\ orig_encoded_string' = EncodeSymbols(bitlist, encoder_dict, 1)
    /\ IF ~HeaderFits(encoder_dict)
       THEN /\ pc' = "failed"
            /\ err' = "CreationError"
            /\ UNCHANGED <<header, encoded_string>>
       ELSE /\ header' = make_header(orig_encoded_string', encoder_dict)
            /\ encoded_string' = Padded(header' \o orig_encoded_string')
            /\ IF Len(encoded_string') % 8 = 0
               THEN pc' = "encoded" /\ UNCHANGED err
               ELSE pc' = "failed" /\ err' = "AssertionError"
    /\ UNCHANGED <<bitlist, freqs, wfreqs, codes, ptr, encoder_dict,
                   decode_input, head, code2symb, bin_to_decompress, n_pad,
                   decoded_string>>

\* the compressed stream without its final byte
Truncated(s) == DropLast(s, 8)

\* Decode, up to the end of the header loop, called on the compressed
\* stream or on the stream cut short by one byte
DecodeHeader ==
    /\ pc = "encoded"
    /\ \E s \in {encoded_string, Truncated(encoded_string)} :
          LET st == ParseHeader(s)
          IN  /\ decode_input' = s
              /\ n_pad' = st.n_pad
              /\ head' = st.head
              /\ code2symb' = st.code2symb
              /\ bin_to_decompress' = st.rest
              /\ err' = st.err
              /\ pc' = IF st.err = "none" THEN "parsed" ELSE "failed"
    /\ UNCHANGED <<bitlist, freqs, wfreqs, codes, ptr, encoder_dict,
                   orig_encoded_string, header, encoded_string,
                   decoded_string>>

\* Decode, from the removal of the padding to the end
DecodeBody ==
    /\ pc = "parsed"
    /\ bin_to_decompress' = Unpadded(bin_to_decompress, n_pad)
    /\ decoded_string' = Scan(bin_to_decompress', code2symb)
    /\ pc' = "decoded"
    /\ UNCHANGED <<bitlist, freqs, wfreqs, codes, ptr, encoder_dict,
                   orig_encoded_string, header, encoded_string, decode_input,
                   head, code2symb, n_pad, err>>

Next ==
    \/ EncodeStart
    \/ BuildStart
    \/ MergeStep
    \/ FinishBuild
    \/ EncodeFinish
    \/ DecodeHeader
    \/ DecodeBody

Spec == Init /\ [][Next]_vars

---------------------------------------------------------------------------
(* create_encoder_dictionary on its own, called on a frequency list of at  *)
(* most MaxSyms distinct symbols with counts of at most MaxCount, sorted   *)
(* from the most common to the least common as make_frequency_tuples       *)
(* leaves it.                                                              *)

FreqLists ==
    {fs \in UNION {[1..k -> (1..MaxCount) \X {0}] : k \in 0..MaxSyms} :
        \A i \in 1..(Len(fs) - 1) : fs[i][1] >= fs[i + 1][1]}

InitBuild ==
    /\ pc = "create_encoder_dictionary"
    /\ \E fs \in FreqLists, up \in BOOLEAN :
          freqs = [i \in 1..Len(fs) |->
                      <<fs[i][1], IF up THEN i - 1 ELSE NumSymbols - i>>]
    /\ bitlist = <<>>
    /\ encoder_dict = <<>> /\ orig_encoded_string = <<>>
    /\ wfreqs = <<>> /\ codes = <<>> /\ ptr = 0
    /\ header = <<>> /\ encoded_string = <<>>
    /\ decode_input = <<>> /\ head = <<>> /\ code2symb = <<>>
    /\ bin_to_decompress = <<>> /\ n_pad = 0 /\ decoded_string = <<>>
    /\ err = "none"

NextBuild ==
    \/ BuildStart
    \/ MergeStep
    \/ FinishBuild

SpecBuild == InitBuild /\ [][NextBuild]_vars

---------------------------------------------------------------------------
(* make_header and Decode's header loop on their own, on a valid code      *)
(* table: 1 .. MaxTable symbols, prefix-free codewords.                    *)

\* p is a prefix of q
IsPrefix(p, q) == Len(p) <= Len(q) /\ SubSeq(q, 1, Len(p)) = p

\* the symbols, codewords, padding bytes and payloads the tables and
\* streams are made of
HdrSyms == {0, 65, 255}
LongCodes == {[i \in 1..255 |-> 1], [i \in 1..128 |-> 0]}
CodeWords == UNION {[1..k -> Bit] : k \in 1..MaxCodeLen} \cup LongCodes
PadBytes == {0, 1, 8, 128, 255}
HdrPayloads == {<<>>, <<0>>, <<1, 1, 0>>}

Tables ==
    {t \in UNION {[1..k -> HdrSyms \X CodeWords] : k \in 1..MaxTable} :
        \A i, j \in 1..Len(t) :
            i # j => t[i][1] # t[j][1] /\ ~IsPrefix(t[i][2], t[j][2])}

InitHeader ==
    /\ pc = "make_header"
    /\ encoder_dict \in Tables
    /\ orig_encoded_string \in HdrPayloads
    /\ bitlist = <<>>
    /\ InitRest

\* make_header(T), prefixed with a padding byte and followed by the payload
PrefixHeader ==
    /\ pc = "make_header"
    /\ header' = make_header(orig_encoded_string, encoder_dict)
    /\ \E p \in PadBytes :
          encoded_string' = Bin8(p) \o header' \o orig_encoded_string
    /\ pc' = "encoded"
    /\ UNCHANGED <<bitlist, freqs, wfreqs, codes, ptr, encoder_dict,
                   orig_encoded_string, decode_input, head, code2symb,
                   bin_to_decompress, n_pad, decoded_string, err>>

NextHeader ==
    \/ PrefixHeader
    \/ DecodeHeader

SpecHeader == InitHeader /\ [][NextHeader]_vars

---------------------------------------------------------------------------
(* Definitions the properties are stated with.                             *)

\* the distinct symbols of the input of Encode
InputSymbols == {bitlist[i] : i \in 1..Len(bitlist)}

\* the bits of a list of symbols: the file's bytes, in order
RECURSIVE BitsOf(_)
BitsOf(bl) == IF bl = <<>> THEN <<>> ELSE Bin8(Head(bl)) \o BitsOf(Tail(bl))

\* Decode was called on the whole compressed stream / on the cut one
DecodedWhole == pc = "decoded" /\ decode_input = encoded_string
DecodedCut == pc = "decoded" /\ decode_input = Truncated(encoded_string)
                             /\ decode_input # encoded_string

\* a string of one or more bits and nothing else
IsBits(c) == Len(c) >= 1 /\ \A i \in 1..Len(c) : c[i] \in Bit

\* the keys of a dict, the names in a frequency list
Keys(d) == {d[i][1] : i \in 1..Len(d)}
Names(fs) == {fs[i][2] : i \in 1..Len(fs)}

\* sum of w over the index set I
RECURSIVE SumOver(_, _)
SumOver(w, I) ==
    IF I = {} THEN 0
    ELSE LET i == CHOOSE x \in I : TRUE IN w[i] + SumOver(w, I \ {i})

\* least member of a nonempty set of numbers
Least(S) == CHOOSE m \in S : \A x \in S : m <= x

\* sum over the leaves of weight times depth, for the best binary tree whose
\* leaves are I: the root splits I in two, and each part is coded best
RECURSIVE BestCost(_, _)
BestCost(w, I) ==
    IF Cardinality(I) <= 1 THEN 0
    ELSE LET first == Least(I)
             parts == {A \in SUBSET I : first \in A /\ A # I}
         IN  SumOver(w, I)
             + Least({BestCost(w, A) + BestCost(w, I \ A) : A \in parts})

\* the total encoded length of a table ed for the frequency list fs
TableCost(ed, fs) ==
    SumOver([i \in 1..Len(fs) |-> fs[i][1] * Len(Get(ed, fs[i][2]))],
            1..Len(fs))

---------------------------------------------------------------------------
(* C1.  Round trip: for every input with at least two distinct byte        *)
(* values, Encode and then Decode complete without an exception, and the   *)
(* decoded string is exactly the bits of the input: the same bytes, in the *)
(* same order, the same number of them.                                    *)
C1_RoundTrip ==
    Cardinality(InputSymbols) >= 2 =>
        /\ pc # "failed"
        /\ DecodedWhole => decoded_string = BitsOf(bitlist)

C1_Witness ==
    /\ DecodedWhole
    /\ Cardinality(InputSymbols) = 4
    /\ Len(bitlist) >= 5
    /\ decoded_string = BitsOf(bitlist)

(* C2.  Prefix-free: in the table create_encoder_dictionary returns, no    *)
(* symbol's codeword is a prefix of another symbol's codeword (so no two   *)
(* are equal).                                                             *)
C2_PrefixFree ==
    pc = "built" =>
        \A i, j \in 1..Len(encoder_dict) :
            i # j => ~IsPrefix(encoder_dict[i][2], encoder_dict[j][2])

C2_Witness ==
    /\ pc = "built"
    /\ Len(encoder_dict) >= 4
    /\ \E i, j \in 1..Len(encoder_dict) :
          Len(encoder_dict[i][2]) + 2 <= Len(encoder_dict[j][2])

(* C3.  One distinct symbol: Encode completes with the one-entry table     *)
(* that maps the symbol to the codeword "0", and Decode of the result      *)
(* gives the input back.                                                   *)
C3_SingleSymbol ==
    Cardinality(InputSymbols) = 1 =>
        /\ pc # "failed"
        /\ pc \in {"built", "encoded", "parsed", "decoded"} =>
              encoder_dict = << <<bitlist[1], <<0>> >> >>
        /\ DecodedWhole => decoded_string = BitsOf(bitlist)

(* C4.  Empty input: Encode either rejects it as EmptyInput or carries on  *)
(* with an empty table to a round trip that gives the empty sequence; it   *)
(* does not end in another exception.                                      *)
C4_EmptyInput ==
    bitlist = <<>> =>
        /\ pc = "failed" => err = "EmptyInput"
        /\ pc \in {"built", "encoded", "parsed", "decoded"} =>
              encoder_dict = <<>>
        /\ DecodedWhole => decoded_string = <<>>

(* C5.  Corrupt input: Decode of a compressed stream without its final     *)
(* byte ends in an error; it never returns a decoded sequence.             *)
C5_TruncatedRejected == ~DecodedCut

(* C6.  Header inverse: parsing the padding byte and make_header(T) gives  *)
(* a decode map with exactly one entry codeword -> symbol for every entry  *)
(* symbol -> codeword of T and nothing else, and takes exactly the header  *)
(* off the stream: what is left is the payload.                            *)
C6_HeaderInverse ==
    pc = "parsed" /\ decode_input = encoded_string =>
        /\ Len(code2symb) = Len(encoder_dict)
        /\ {<<code2symb[i][2], code2symb[i][1]>> : i \in 1..Len(code2symb)}
             = {<<Bin8(encoder_dict[i][1]), encoder_dict[i][2]>> :
                    i \in 1..Len(encoder_dict)}
        /\ head = SubSeq(encoded_string, 1, 8) \o header
        /\ bin_to_decompress = orig_encoded_string

C6_Witness ==
    /\ pc = "parsed" /\ decode_input = encoded_string
    /\ Len(encoder_dict) = 2
    /\ \E i \in 1..2 : Len(encoder_dict[i][2]) = 255
    /\ Len(code2symb) = 2
    /\ orig_encoded_string = <<1, 1, 0>>
    /\ bin_to_decompress = orig_encoded_string
    /\ Uint(SubSeq(encoded_string, 1, 8)) = 255

(* C7.  Padding: the count written in byte 0 is 8 - ((header bits +        *)
(* payload bits) mod 8), so it is in 1..8; that many zero bits end the     *)
(* stream; the length of the stream is a multiple of 8 and the assertion   *)
(* in Encode does not fail.                                                *)
C7_Padding ==
    /\ err # "AssertionError"
    /\ pc = "encoded" =>
          LET total == Len(header) + Len(orig_encoded_string)
              pad   == Uint(SubSeq(encoded_string, 1, 8))
          IN  /\ pad = 8 - (total % 8)
              /\ pad \in 1..8
              /\ Len(encoded_string) = 8 + total + pad
              /\ SubSeq(encoded_string, 9, 8 + total)
                   = header \o orig_encoded_string
              /\ \A i \in (8 + total + 1)..Len(encoded_string) :
                    encoded_string[i] = 0
              /\ Len(encoded_string) % 8 = 0

C7_Witness ==
    /\ pc = "encoded"
    /\ (Len(header) + Len(orig_encoded_string)) % 8 = 0
    /\ Uint(SubSeq(encoded_string, 1, 8)) = 8
    /\ Len(encoded_string) = 8 + Len(header) + Len(orig_encoded_string) + 8

(* C8.  Codeword lengths: for n >= 2 distinct symbols every codeword of    *)
(* the table has 1 .. n-1 bits, and the header's 8-bit fields (symbol      *)
(* count - 1, codeword length) hold their values.                          *)
C8_LengthBound ==
    pc = "built" =>
        /\ Len(freqs) >= 2
        /\ \A i \in 1..Len(encoder_dict) :
              Len(encoder_dict[i][2]) \in 1..(Len(freqs) - 1)
        /\ HeaderFits(encoder_dict)

C8_Witness ==
    /\ pc = "built"
    /\ Len(freqs) >= 4
    /\ \E i \in 1..Len(encoder_dict) :
          Len(encoder_dict[i][2]) = Len(freqs) - 1

(* C9.  Code names: after every pass of the merge loop each codeword in    *)
(* codes is one code name, of an entry that is in the working frequency    *)
(* list, followed by one or more bits; after the last pass every codeword  *)
(* is a nonempty string of bits, and the keys of the returned table are    *)
(* exactly the symbols of the frequency list.                              *)
C9_Placeholders ==
    /\ pc = "build" /\ ptr > 0 =>
          \A i \in 1..Len(codes) :
              LET c == codes[i][2]
              IN  /\ Len(c) >= 2
                  /\ IsName(c[1])
                  /\ c[1] \in Names(wfreqs)
                  /\ IsBits(Tail(c))
    /\ pc = "built" =>
          /\ \A i \in 1..Len(codes) : IsBits(codes[i][2])
          /\ \A i \in 1..Len(encoder_dict) : IsBits(encoder_dict[i][2])
          /\ Keys(encoder_dict) = Names(freqs)
          /\ Len(encoder_dict) = Len(freqs)
          /\ \A k \in Keys(encoder_dict) : ~IsName(k)

C9_Witness ==
    /\ pc = "build"
    /\ ptr >= 2
    /\ \E i \in 1..Len(codes) :
          /\ Len(codes[i][2]) >= 3
          /\ codes[i][2][1] \in Names(wfreqs)
          /\ codes[i][2][1] # codesnames(ptr - 1)

(* C10.  Optimality: for two or more symbols the table's total encoded     *)
(* length, the sum over the symbols of count times codeword length, is the *)
(* least that any prefix-free binary code has for those counts.            *)
C10_Optimal ==
    pc = "built" =>
        TableCost(encoder_dict, freqs)
          = BestCost([i \in 1..Len(freqs) |-> freqs[i][1]], 1..Len(freqs))

C10_Witness ==
    /\ pc = "built"
    /\ Len(freqs) >= 4
    /\ \E i, j \in 1..Len(encoder_dict) :
          Len(encoder_dict[i][2]) < Len(encoder_dict[j][2])
    /\ \E i, j \in 1..Len(freqs) : freqs[i][1] > freqs[j][1] /\ freqs[j][1] > 1
    /\ TableCost(encoder_dict, freqs)
         = BestCost([i \in 1..Len(freqs) |-> freqs[i][1]], 1..Len(freqs))

===========================================================================
